---- MODULE Spec2Model ----
(***************************************************************************)
(* Model of TextToWavCLI.py: a line-numbered BASIC text is turned into a   *)
(* list of bit strings (Create_BinData), every bit string is framed as     *)
(* start bit + data bits + parity bit and rendered as square-wave pulses   *)
(* (Encode_Data), and leader, frames and trailer are written to a WAV file *)
(* (Write_Wav).                                                            *)
(*                                                                         *)
(* Representation.  A Python str is a sequence of Unicode code points, a   *)
(* bytearray is a sequence of integers 0..255, and a string of '0'/'1'     *)
(* characters (one element of code_array) is a sequence over {0, 1}, most  *)
(* significant digit first.  Module-level names that the functions read    *)
(* as globals are explicit parameters of the operators that model the      *)
(* functions; the actions pass the current value of the global.            *)
(*                                                                         *)
(* The int that int(number_str) returns has no bound. It is represented as *)
(* CPython stores it: the sequence of its digits in base 2^15, least       *)
(* significant first, without leading zero digits (<<>> is 0, <<10>> is    *)
(* 10, <<0, 2>> is 65536). Every other number of the program is small and  *)
(* is an integer of the model. A call that raises returns a value that no  *)
(* normal return has: ValueError from int and Extract_Number_String,       *)
(* Raised from Create_BinData.                                             *)
(***************************************************************************)
EXTENDS Integers, Sequences, FiniteSets, Bags, TLC

VARIABLES
    ONES_FREQ,      \* global, line 35, reassigned at line 184
    ZERO_FREQ,      \* global, line 36, reassigned at line 185
    FRAMERATE,      \* global, line 34, reassigned at line 186
    AMPLITUDE,      \* global, line 37, reassigned at line 187
    LEADER,         \* global, line 39, reassigned at line 188
    STARTBIT,       \* global, line 41, reassigned at line 189
    PARITY,         \* global, line 40, reassigned at line 190
    SourceDir,      \* global, lines 174-176: the kind of directory answered
    one_pulse,      \* global, line 50, assigned once when the module loads
    zero_pulse,     \* global, line 51, assigned once when the module loads
    pc,             \* position of the main program
    files,          \* the *.txt files still to be visited (line 196)
    text_content,   \* content of the file being converted (line 67)
    Binary_Data,    \* result of Create_BinData for that file (line 212)
    idx,            \* position of the loop of line 151 in Binary_Data
    x,              \* loop variable of line 154
    wav,            \* samples handed to w.writeframes so far for that file
    call,           \* arguments of a single function call under test
    ret             \* value returned by that call

vars == <<ONES_FREQ, ZERO_FREQ, FRAMERATE, AMPLITUDE, LEADER, STARTBIT, PARITY,
          SourceDir, one_pulse, zero_pulse, pc, files, text_content, Binary_Data, idx, x,
          wav, call, ret>>

-----------------------------------------------------------------------------
(* Global parameters, lines 34-41 (the values the module loads with).      *)

FRAMERATE_DEFAULT == 22050
ONES_FREQ_DEFAULT == 2400
ZERO_FREQ_DEFAULT == 800
AMPLITUDE_DEFAULT == 225
CENTER == 128
LEADER_DEFAULT == 14
PARITY_DEFAULT == 0
STARTBIT_DEFAULT == 0

\* click.Choice lists of lines 184-186.
FreqChoices == {300, 500, 600, 800, 1000, 1200, 2000, 2400, 4800, 9600}
FramerateChoices == {4800, 9600, 11025, 22050, 44100, 48000}

-----------------------------------------------------------------------------
(* Python built-ins used by the program.                                   *)

Min(a, b) == IF a < b THEN a ELSE b
Max(a, b) == IF a > b THEN a ELSE b

\* s * k for a bytearray s: k copies of s, empty when k <= 0.
Repeat(s, k) ==
    IF k <= 0 \/ Len(s) = 0 THEN <<>>
    ELSE [i \in 1..(Len(s) * k) |-> s[((i - 1) % Len(s)) + 1]]

\* s[a:b] for 0 <= a <= b.
Slice(s, a, b) == SubSeq(s, a + 1, Min(b, Len(s)))

\* s[a:] for 0 <= a.
SliceFrom(s, a) == SubSeq(s, a + 1, Len(s))

\* bin(n)[2:] for n >= 0: the binary digits of n without leading zeros.
RECURSIVE Bin(_)
Bin(n) == IF n < 2 THEN <<n>> ELSE Append(Bin(n \div 2), n % 2)

\* s.zfill(w): pad on the left with '0' up to width w; longer strings are kept.
zfill(s, w) == IF Len(s) >= w THEN s ELSE [i \in 1..(w - Len(s)) |-> 0] \o s

\* The code points with Unicode category Nd and digit value 0 (Unicode 14, the
\* table of the re module and of int()); each starts a run of ten digits 0..9.
DigitZeros ==
    {48, 1632, 1776, 1984, 2406, 2534, 2662, 2790, 2918, 3046, 3174, 3302,
     3430, 3558, 3664, 3792, 3872, 4160, 4240, 6112, 6160, 6470, 6608, 6784,
     6800, 6992, 7088, 7232, 7248, 42528, 43216, 43264, 43472, 43504, 43600,
     44016, 65296, 66720, 68912, 69734, 69872, 69942, 70096, 70384, 70736,
     70864, 71248, 71360, 71472, 71904, 72016, 72784, 73040, 73120, 92768,
     92864, 93008, 120782, 120792, 120802, 120812, 120822, 123200, 123632,
     125264, 130032}

\* \d of a str pattern: any Unicode decimal digit.
IsDigit(c) == \E z \in DigitZeros : c \in z..(z + 9)

DigitValue(c) == c - (CHOOSE z \in DigitZeros : c \in z..(z + 9))

\* The base of the digits of an int, and the most decimal digits int() converts
\* (sys.get_int_max_str_digits(), 4300 unless the interpreter is told otherwise).
PyLong_BASE == 32768
INT_MAX_STR_DIGITS == 4300

\* What int() returns in place of a number when it raises ValueError.
ValueError == <<-2>>

\* The int of a number below 2^30.
small(v) == IF v = 0 THEN <<>>
            ELSE IF v < PyLong_BASE THEN <<v>>
            ELSE <<v % PyLong_BASE, v \div PyLong_BASE>>

\* Digit i of an int, 0 beyond its most significant digit.
limb(a, i) == IF 1 <= i /\ i <= Len(a) THEN a[i] ELSE 0

\* The sum of a sequence of natural numbers.
sum(f) == BagCardinality([i \in 1..Len(f) |-> f[i] + 1]) - Len(f)

\* The int with the value of w[1] + w[2] * 2^15 + w[3] * 2^30 + ..., for
\* numbers w[k] below 2^26: the carries are propagated and the leading zero
\* digits dropped. s[k] is below 2^16, so no digit receives a carry of more
\* than 1, and digit k receives one when a digit below it overflows and every
\* digit between the two is 2^15 - 1.
normalize(w) ==
    LET n == Len(w) + 1
        s == [k \in 1..n |-> (limb(w, k) % PyLong_BASE)
                                + (limb(w, k - 1) \div PyLong_BASE)] \o <<>>
        from(k) == CHOOSE d \in 1..k :
                        /\ d = k \/ s[k - d] # PyLong_BASE - 1
                        /\ \A e \in 1..(d - 1) : s[k - e] = PyLong_BASE - 1
        carry(k) == IF from(k) < k /\ s[k - from(k)] >= PyLong_BASE THEN 1 ELSE 0
        r == [k \in 1..n |-> (s[k] + carry(k)) % PyLong_BASE] \o <<>>
        zeros == CHOOSE d \in 0..n :
                        /\ d = n \/ r[n - d] # 0
                        /\ \A e \in 0..(d - 1) : r[n - e] = 0
    IN  SubSeq(r, 1, n - zeros)

\* a + b for two ints.
add(a, b) ==
    normalize([k \in 1..Max(Len(a), Len(b)) |-> limb(a, k) + limb(b, k)] \o <<>>)

\* a * b for two ints, the shorter of fewer than 1024 digits: column k is the
\* sum of the low halves of the products a[i] * b[j] with i + j = k + 1 and of
\* the high halves of those with i + j = k.
column(a, b, k, half) ==
    LET lo == Max(1, k + 1 - Len(b))
        hi == Min(Len(a), k)
    IN  sum([i \in 1..(hi - lo + 1) |->
                IF half = 0 THEN (a[lo + i - 1] * b[k + 2 - lo - i]) % PyLong_BASE
                ELSE (a[lo + i - 1] * b[k + 2 - lo - i]) \div PyLong_BASE])

mul(a, b) ==
    IF a = <<>> \/ b = <<>> THEN <<>>
    ELSE normalize([k \in 1..(Len(a) + Len(b)) |->
                        column(a, b, k, 0) + column(a, b, k - 1, 1)] \o <<>>)

\* The value of the decimal digits s[lo..hi], at most nine of them.
RECURSIVE small_int(_, _, _)
small_int(s, lo, hi) ==
    IF lo > hi THEN 0 ELSE small_int(s, lo, hi - 1) * 10 + DigitValue(s[hi])

\* The int 10^h.
RECURSIVE pow10(_)
pow10(h) ==
    IF h <= 9 THEN small(10 ^ h)
    ELSE LET q == pow10(h \div 2)
         IN  IF h % 2 = 0 THEN mul(q, q) ELSE mul(mul(q, q), <<10>>)

\* The int of the decimal digits s[lo..hi]: nine digits at once, more digits
\* as (left half) * 10^h + (right half of h digits).
RECURSIVE int_range(_, _, _)
int_range(s, lo, hi) ==
    IF hi - lo < 9 THEN small(small_int(s, lo, hi))
    ELSE LET h == (hi - lo + 1) \div 2
         IN  add(mul(int_range(s, lo, hi - h), pow10(h)), int_range(s, hi - h + 1, hi))

\* int(number_str) for a non-empty string of decimal digits: the number, or
\* ValueError when the string has more than INT_MAX_STR_DIGITS digits.
int(s) == IF Len(s) > INT_MAX_STR_DIGITS THEN ValueError ELSE int_range(s, 1, Len(s))

\* bin(n)[2:] for an int n: its binary digits without leading zeros.
bin_int(n) ==
    IF n = <<>> THEN <<0>>
    ELSE LET all == [j \in 1..(15 * Len(n)) |->
                        (n[Len(n) - ((j - 1) \div 15)] \div (2 ^ (14 - ((j - 1) % 15)))) % 2]
             first == CHOOSE j \in 1..15 : all[j] = 1 /\ \A k \in 1..(j - 1) : all[k] = 0
         IN  SubSeq(all, first, Len(all))

\* str.isspace() of one character: what str.lstrip() removes.
Whitespace ==
    {9, 10, 11, 12, 13, 28, 29, 30, 31, 32, 133, 160, 5760, 8192, 8193, 8194,
     8195, 8196, 8197, 8198, 8199, 8200, 8201, 8202, 8232, 8233, 8239, 8287,
     12288}

\* Length of the run of decimal digits s begins with: what (\d+) matches.
DigitRun(s) ==
    CHOOSE d \in 0..Len(s) :
        /\ d = Len(s) \/ ~IsDigit(s[d + 1])
        /\ \A i \in 1..d : IsDigit(s[i])

IsSpace(c) == c \in Whitespace

\* Length of the run of white space s begins with.
SpaceRun(s) ==
    CHOOSE d \in 0..Len(s) :
        /\ d = Len(s) \/ ~IsSpace(s[d + 1])
        /\ \A i \in 1..d : IsSpace(s[i])

lstrip(s) == SliceFrom(s, SpaceRun(s))

\* One character encoded in UTF-8 (no surrogates: they cannot be read from a file).
utf8(c) ==
    IF c < 128 THEN <<c>>
    ELSE IF c < 2048 THEN <<192 + (c \div 64), 128 + (c % 64)>>
    ELSE IF c < 65536 THEN
        <<224 + (c \div 4096), 128 + ((c \div 64) % 64), 128 + (c % 64)>>
    ELSE <<240 + (c \div 262144), 128 + ((c \div 4096) % 64),
           128 + ((c \div 64) % 64), 128 + (c % 64)>>

\* The UTF-8 bytes of the characters s[lo..hi], in order.
RECURSIVE encode_range(_, _, _)
encode_range(s, lo, hi) ==
    IF lo > hi THEN <<>>
    ELSE IF lo = hi THEN utf8(s[lo])
    ELSE LET mid == (lo + hi) \div 2
         IN  encode_range(s, lo, mid) \o encode_range(s, mid + 1, hi)

\* s.encode('utf-8')
encode(s) == encode_range(s, 1, Len(s))

NEWLINE == 10
CR == 13

\* Position of the first c in s, 0 when there is none.
IndexOf(s, c) ==
    IF \E i \in 1..Len(s) : s[i] = c
    THEN CHOOSE i \in 1..Len(s) : s[i] = c /\ \A j \in 1..(i - 1) : s[j] # c
    ELSE 0

\* text.split('\n'): always at least one segment.
RECURSIVE split(_)
split(text) ==
    LET p == IndexOf(text, NEWLINE)
    IN  IF p = 0 THEN <<text>>
        ELSE <<SubSeq(text, 1, p - 1)>> \o split(SliceFrom(text, p))

\* file.read() of a file opened in text mode (line 66, newline=None): every
\* "\r\n" and every other "\r" among the decoded characters becomes "\n".
RECURSIVE read(_)
read(chars) ==
    LET p == IndexOf(chars, CR)
        skip == IF p < Len(chars) /\ chars[p + 1] = NEWLINE THEN p + 1 ELSE p
    IN  IF p = 0 THEN chars
        ELSE SubSeq(chars, 1, p - 1) \o <<NEWLINE>> \o read(SliceFrom(chars, skip))

-----------------------------------------------------------------------------
(* Lines 44-54.                                                            *)

\* Mutation of make_square_wave: the half cycle is as long as a whole cycle.
make_square_wave_Mutant(freq, framerate, amplitude, center) ==
    LET n == framerate \div freq
    IN  Repeat(<<center - amplitude \div 2>>, n)
            \o Repeat(<<center + amplitude \div 2>>, n)

\* make_square_wave(freq, framerate); AMPLITUDE and CENTER are read as globals.
\* int(framerate/freq/2) truncates the quotient of positive numbers.
make_square_wave(freq, framerate, amplitude, center) ==
    LET n == framerate \div (freq * 2)
    IN  Repeat(<<center - amplitude \div 2>>, n)
            \o Repeat(<<center + amplitude \div 2>>, n)

is_even(number) == number % 2 = 0

-----------------------------------------------------------------------------
(* Lines 56-97.                                                            *)

None == <<-1>>

\* Mutation of Extract_Number_String: the pattern r"^\s*(\d+)(.*)", which lets
\* white space precede the number.
Extract_Number_String_Mutant(text) ==
    LET t == lstrip(text)
        d == DigitRun(t)
    IN  IF d > 0
        THEN [label |-> int(SubSeq(t, 1, d)), code |-> lstrip(SliceFrom(t, d))]
        ELSE [label |-> <<-1>>, code |-> text]

\* re.match(r"^(\d+)(.*)", text): a greedy run of digits, then everything up
\* to the first newline. The result is the pair (label, remaining) as a record;
\* its label is ValueError when int(number_str) raises.
Extract_Number_String(text) ==
    LET d == DigitRun(text)
        after == SliceFrom(text, d)
        nl == IndexOf(after, NEWLINE)
        remaining_str == IF nl = 0 THEN after ELSE SubSeq(after, 1, nl - 1)
    IN  IF d > 0
        THEN [label |-> int(SubSeq(text, 1, d)), code |-> lstrip(remaining_str)]
        ELSE [label |-> None, code |-> text]

\* One pass of the loop body of lines 75-87: what one line appends to code_array
\* (nothing when line 76 raises).
Line_Groups(segment) ==
    LET e == Extract_Number_String(segment)
        byte_code == encode(e.code \o <<CR>>)
        label_byte == zfill(bin_int(e.label), 16)
    IN  IF e.label = None \/ e.label = ValueError THEN <<>>
        ELSE <<Slice(label_byte, 0, 8), SliceFrom(label_byte, 8)>>
                \o [k \in 1..Len(byte_code) |-> zfill(Bin(byte_code[k]), 8)]

\* The loop of lines 74-87 over the segments i, i+1, ...
RECURSIVE Code_Array(_, _)
Code_Array(text_segment, i) ==
    IF i > Len(text_segment) THEN <<>>
    ELSE Line_Groups(text_segment[i]) \o Code_Array(text_segment, i + 1)

\* Lines 91-93: the two elements of start_array.
Start_Array(byte_size) ==
    LET start == zfill(Bin(byte_size + 256), 16)
    IN  <<Slice(start, 0, 8), SliceFrom(start, 8)>>

\* What Create_BinData returns in place of a list when it raises.
Raised == <<ValueError>>

\* Lines 65-97; chars are the characters the file at SourceFile decodes to.
\* The ValueError of line 60 for any line ends the call.
Create_BinData(chars) ==
    LET content == read(chars)
        text_segment == split(content)
        code_array == Code_Array(text_segment, 1)
        byte_size == Len(code_array)
    IN  IF \E i \in 1..Len(text_segment) :
                Extract_Number_String(text_segment[i]).label = ValueError
        THEN Raised
        ELSE Start_Array(byte_size) \o code_array \o <<zfill(Bin(0), 8)>>

-----------------------------------------------------------------------------
(* Lines 101-128.                                                          *)

\* The waveform of one bit character: lines 110-114.
Bit_Pulse(bit, one, zero) == IF bit = 1 THEN one ELSE zero

\* The loop of lines 109-114 over the characters lo..hi of the bit string.
RECURSIVE Data_Pulses(_, _, _, _, _)
Data_Pulses(bytes, lo, hi, one, zero) ==
    IF lo > hi THEN <<>>
    ELSE Bit_Pulse(bytes[lo], one, zero) \o Data_Pulses(bytes, lo + 1, hi, one, zero)

\* p after the loop: the number of '1' characters.
Ones_Count(bytes) == Cardinality({i \in 1..Len(bytes) : bytes[i] = 1})

\* Mutation of Parity_Pulse: odd mode without the p == 0 case and with the
\* test for an even count turned around.
Parity_Pulse_Mutant(p, parity, one, zero) ==
    IF parity = 0
    THEN (IF p # 0 /\ ~is_even(p) THEN one ELSE zero)
    ELSE (IF ~is_even(p) THEN one ELSE zero)

\* Lines 118-127: the parity pulse for p one-bits.
Parity_Pulse(p, parity, one, zero) ==
    IF parity = 0
    THEN (IF p = 0 \/ is_even(p) THEN one ELSE zero)
    ELSE (IF ~is_even(p) THEN one ELSE zero)

\* Encode_Data(bytes); STARTBIT, PARITY, one_pulse and zero_pulse are read as
\* globals.
Encode_Data(bytes, startbit, parity, one, zero) ==
    (IF startbit = 0 THEN zero ELSE one)
        \o Data_Pulses(bytes, 1, Len(bytes), one, zero)
        \o Parity_Pulse(Ones_Count(bytes), parity, one, zero)

-----------------------------------------------------------------------------
(* Lines 142-156.                                                          *)

\* Mutation of Leader_Frames: the seconds of leader are not multiplied in.
Leader_Frames_Mutant(framerate, leader, one) ==
    Repeat(one, framerate \div Len(one))

\* Line 149: the frames of the leader. int(FRAMERATE/len(one_pulse)) truncates.
Leader_Frames(framerate, leader, one) ==
    Repeat(one, (framerate \div Len(one)) * leader)

\* Line 154: range(3).
TRAILER_PULSES == 3

-----------------------------------------------------------------------------
(* Inputs.                                                                 *)

\* Source lines the input texts are made of:
\*   "10 A"      a labelled line
\*   ""          a blank line
\*   " 5B"       white space before the number
\*   "65536"     a label above 65535 with an empty body
\*   "A1"        text before the number
\*   "7<TAB> e'" label 7, white space, then U+00E9 (two UTF-8 bytes)
\*   "<U+0663>2" label 32 written with an Arabic-Indic digit
\*   "300C"      a label with a non-zero high byte and no white space
\*   "4<CR>D"    a carriage return inside what the file has as one line
SourceLines ==
    {<<49, 48, 32, 65>>, <<>>, <<32, 53, 66>>, <<54, 53, 53, 51, 54>>,
     <<65, 49>>, <<55, 9, 32, 233>>, <<1635, 50>>, <<51, 48, 48, 67>>,
     <<52, 13, 68>>}

\* Most lines of a generated text.
MaxLines == 3

\* The lines joined with '\n' between them.
RECURSIVE Join(_)
Join(ls) ==
    IF Len(ls) = 0 THEN <<>>
    ELSE IF Len(ls) = 1 THEN ls[1]
    ELSE ls[1] \o <<NEWLINE>> \o Join(Tail(ls))

Texts == {Join(ls) : ls \in UNION {[1..n -> SourceLines] : n \in 1..MaxLines}}

\* A text of one labelled line, "1 AAA...A", that contributes 65280 groups:
\* the smallest number for which byte_size + 256 needs a 17th binary digit.
LongText == <<49, 32>> \o [i \in 1..65277 |-> 65]

\* A text of one line of 4301 digits and a body, "11...1 A": one digit more
\* than int() converts.
DigitsText == [i \in 1..(INT_MAX_STR_DIGITS + 1) |-> 49] \o <<32, 65>>

\* The line " 5B", which has no label, before the line of DigitsText.
MixedDigitsText == <<32, 53, 66, NEWLINE>> \o DigitsText

\* What open() finds at a path that names no file, and what file.read() finds
\* in a file whose bytes are not UTF-8.
NoFile == <<-1>>
NotUtf8 == <<-2>>

\* Directory listings of the main program: one record per path that
\* Path(SourceDir).glob('*.txt') yields. "listed" is the text of the file at
\* that path; "joined" is what is at os.path.join(SourceDir, path) when that is
\* another path (SourceDir/SourceDir/name): the text of the file there, or
\* NoFile when there is none.
Directories ==
    {<<>>,
     <<[listed |-> Join(<<<<49, 48, 32, 65>>, <<65, 49>>>>), joined |-> NoFile],
       [listed |-> NotUtf8, joined |-> NoFile]>>,
     <<[listed |-> <<>>, joined |-> <<51, 48, 48, 67>>],
       [listed |-> <<54, 53, 53, 51, 54>>, joined |-> NoFile]>>,
     <<[listed |-> <<52, 13, 68>>, joined |-> <<55, 13, 10, 32, 53, 66>>],
       [listed |-> DigitsText, joined |-> DigitsText],
       [listed |-> <<49, 48, 32, 65>>, joined |-> <<49, 48, 32, 65>>]>>}

\* Answers at the prompt of line 174. The paths glob yields begin with
\* SourceDir. For an absolute SourceDir os.path.join returns the path itself;
\* for a relative one ("sub") it returns SourceDir + path ("sub/sub/prog.txt").
SourceDirInputs == {"absolute", "relative"}

\* Line 197: the text at SourceFile, or NoFile.
SourceFile(dir, file) == IF dir = "absolute" THEN file.listed ELSE file.joined

\* Answers given at the prompts of lines 184-190 (all of them accepted by the
\* click.Choice and click.IntRange types of those lines).
OnesInputs == {2400, 9600}
ZeroInputs == {800, 4800}
FramerateInputs == {4800, 22050}
AmplitudeInputs == {100, 225}
MaxLeader == 1

\* Every string of eight bit characters.
ByteGroups == [1..8 -> {0, 1}]

-----------------------------------------------------------------------------
(* The state after the module has loaded (lines 34-51).                    *)

Loaded ==
    /\ FRAMERATE = FRAMERATE_DEFAULT
    /\ ONES_FREQ = ONES_FREQ_DEFAULT
    /\ ZERO_FREQ = ZERO_FREQ_DEFAULT
    /\ AMPLITUDE = AMPLITUDE_DEFAULT
    /\ LEADER = LEADER_DEFAULT
    /\ PARITY = PARITY_DEFAULT
    /\ STARTBIT = STARTBIT_DEFAULT
    /\ one_pulse = make_square_wave(ONES_FREQ_DEFAULT, FRAMERATE_DEFAULT,
                                    AMPLITUDE_DEFAULT, CENTER)
    /\ zero_pulse = make_square_wave(ZERO_FREQ_DEFAULT, FRAMERATE_DEFAULT,
                                     AMPLITUDE_DEFAULT, CENTER)

Idle ==
    /\ SourceDir = "unset"
    /\ text_content = <<>>
    /\ Binary_Data = <<>>
    /\ idx = 0
    /\ x = 0
    /\ wav = <<>>

globals == <<ONES_FREQ, ZERO_FREQ, FRAMERATE, AMPLITUDE, LEADER, STARTBIT, PARITY,
             SourceDir>>
pulses == <<one_pulse, zero_pulse>>
harness == <<call, ret>>

-----------------------------------------------------------------------------
(* The main program, lines 158-219.                                        *)

Init ==
    /\ Loaded
    /\ Idle
    /\ pc = "start"
    /\ files \in Directories
    /\ call = [fn |-> "main"]
    /\ ret = <<>>

\* Lines 161-163: started with arguments, the program prints its usage and
\* exits.
Usage ==
    /\ pc = "start"
    /\ pc' = "usage"
    /\ UNCHANGED <<globals, pulses, files, text_content, Binary_Data, idx, x, wav,
                   harness>>

\* Lines 161-172: started without arguments, the program goes on to the prompts.
Start ==
    /\ pc = "start"
    /\ pc' = "prompt"
    /\ UNCHANGED <<globals, pulses, files, text_content, Binary_Data, idx, x, wav,
                   harness>>

\* Lines 174-190: the prompts assign the globals; nothing else is recomputed.
Prompts ==
    /\ pc = "prompt"
    /\ SourceDir' \in SourceDirInputs
    /\ ONES_FREQ' \in OnesInputs
    /\ ZERO_FREQ' \in ZeroInputs
    /\ FRAMERATE' \in FramerateInputs
    /\ AMPLITUDE' \in AmplitudeInputs
    /\ LEADER' \in 0..MaxLeader
    /\ STARTBIT' \in 0..1
    /\ PARITY' \in 0..1
    /\ pc' = "confirm"
    /\ UNCHANGED <<pulses, files, text_content, Binary_Data, idx, x, wav, harness>>

\* Line 194, answered yes.
Proceed ==
    /\ pc = "confirm"
    /\ pc' = "glob"
    /\ UNCHANGED <<globals, pulses, files, text_content, Binary_Data, idx, x, wav,
                   harness>>

\* Lines 194 and 218-219, answered no.
Abort ==
    /\ pc = "confirm"
    /\ pc' = "aborted"
    /\ UNCHANGED <<globals, pulses, files, text_content, Binary_Data, idx, x, wav,
                   harness>>

\* Lines 196-212: the file at SourceFile is read and converted to bit strings.
Next_File ==
    /\ pc = "glob"
    /\ files # <<>>
    /\ SourceFile(SourceDir, Head(files)) \notin {NoFile, NotUtf8}
    /\ Create_BinData(SourceFile(SourceDir, Head(files))) # Raised
    /\ text_content' = read(SourceFile(SourceDir, Head(files)))
    /\ Binary_Data' = Create_BinData(SourceFile(SourceDir, Head(files)))
    /\ idx' = 0
    /\ x' = 0
    /\ wav' = <<>>
    /\ pc' = "open"
    /\ UNCHANGED <<globals, pulses, files, harness>>

\* Lines 196-212 and 66-67: there is no file at SourceFile and open() raises
\* FileNotFoundError, or its bytes are not UTF-8 and file.read() raises
\* UnicodeDecodeError, or the file is read and int() raises ValueError for one
\* of its lines (line 60); nothing catches any of them and the program ends.
\* No WAV file is opened for this file or for the files after it.
Next_File_Raises ==
    /\ pc = "glob"
    /\ files # <<>>
    /\ \/ /\ SourceFile(SourceDir, Head(files)) \in {NoFile, NotUtf8}
          /\ UNCHANGED text_content
       \/ /\ SourceFile(SourceDir, Head(files)) \notin {NoFile, NotUtf8}
          /\ Create_BinData(SourceFile(SourceDir, Head(files))) = Raised
          /\ text_content' = read(SourceFile(SourceDir, Head(files)))
    /\ pc' = "crashed"
    /\ UNCHANGED <<globals, pulses, files, Binary_Data, idx, x, wav, harness>>

\* Line 196: no file is left.
Finished ==
    /\ pc = "glob"
    /\ files = <<>>
    /\ pc' = "done"
    /\ UNCHANGED <<globals, pulses, files, text_content, Binary_Data, idx, x, wav,
                   harness>>

\* Lines 143-149: the file is opened and the leader written.
Write_Wav_Leader ==
    /\ pc = "open"
    /\ wav' = Leader_Frames(FRAMERATE, LEADER, one_pulse)
    /\ idx' = 1
    /\ pc' = IF Len(Binary_Data) = 0 THEN "trailer" ELSE "frames"
    /\ UNCHANGED <<globals, pulses, files, text_content, Binary_Data, x, harness>>

\* Lines 151-152: one pass of the loop over Binary_Data.
Write_Wav_Frame ==
    /\ pc = "frames"
    /\ idx <= Len(Binary_Data)
    /\ wav' = wav \o Encode_Data(Binary_Data[idx], STARTBIT, PARITY,
                                   one_pulse, zero_pulse)
    /\ idx' = idx + 1
    /\ pc' = IF idx + 1 > Len(Binary_Data) THEN "trailer" ELSE "frames"
    /\ UNCHANGED <<globals, pulses, files, text_content, Binary_Data, x, harness>>

\* Lines 154-155: one pass of the loop that writes the trailer.
Write_Wav_Trailer ==
    /\ pc = "trailer"
    /\ x < TRAILER_PULSES
    /\ wav' = wav \o zero_pulse
    /\ x' = x + 1
    /\ pc' = IF x + 1 < TRAILER_PULSES THEN "trailer" ELSE "close"
    /\ UNCHANGED <<globals, pulses, files, text_content, Binary_Data, idx, harness>>

\* Line 156.
Write_Wav_Close ==
    /\ pc = "close"
    /\ pc' = "tag"
    /\ UNCHANGED <<globals, pulses, files, text_content, Binary_Data, idx, x, wav,
                   harness>>

\* Line 217, then the next pass of the loop of line 196.
Write_Tag ==
    /\ pc = "tag"
    /\ files' = Tail(files)
    /\ pc' = "glob"
    /\ UNCHANGED <<globals, pulses, text_content, Binary_Data, idx, x, wav, harness>>

Next ==
    \/ Usage
    \/ Start
    \/ Prompts
    \/ Proceed
    \/ Abort
    \/ Next_File
    \/ Next_File_Raises
    \/ Finished
    \/ Write_Wav_Leader
    \/ Write_Wav_Frame
    \/ Write_Wav_Trailer
    \/ Write_Wav_Close
    \/ Write_Tag

Spec == Init /\ [][Next]_vars

-----------------------------------------------------------------------------
(* Single calls of Create_BinData, one per input text.                     *)

InitBin ==
    /\ Loaded
    /\ Idle
    /\ pc = "call"
    /\ files = <<>>
    /\ call \in {[fn |-> "Create_BinData", content |-> t] :
                    t \in Texts \cup {LongText, DigitsText, MixedDigitsText}}
    /\ ret = <<>>

Call_Create_BinData ==
    /\ pc = "call"
    /\ call.fn = "Create_BinData"
    /\ ret' = Create_BinData(call.content)
    /\ pc' = IF Create_BinData(call.content) = Raised THEN "raised" ELSE "return"
    /\ UNCHANGED <<globals, pulses, files, text_content, Binary_Data, idx, x, wav,
                   call>>

NextBin == Call_Create_BinData

SpecBin == InitBin /\ [][NextBin]_vars

-----------------------------------------------------------------------------
(* The size header alone (lines 88-93), one computation per list length.   *)
(* Length 65280 is the length of the code_array of LongText.               *)

SizeInputs == (0..120) \cup (65270..65290)

InitStart ==
    /\ Loaded
    /\ Idle
    /\ pc = "call"
    /\ files = <<>>
    /\ call \in {[fn |-> "Start_Array", byte_size |-> n] : n \in SizeInputs}
    /\ ret = <<>>

Call_Start_Array ==
    /\ pc = "call"
    /\ call.fn = "Start_Array"
    /\ ret' = Start_Array(call.byte_size)
    /\ pc' = "return"
    /\ UNCHANGED <<globals, pulses, files, text_content, Binary_Data, idx, x, wav,
                   call>>

NextStart == Call_Start_Array

SpecStart == InitStart /\ [][NextStart]_vars

-----------------------------------------------------------------------------
(* Single calls of Encode_Data, one per byte value and framing setting.    *)

InitEncode ==
    /\ Loaded
    /\ Idle
    /\ pc = "prompt"
    /\ files = <<>>
    /\ call \in {[fn |-> "Encode_Data", bytes |-> b] : b \in ByteGroups}
    /\ ret = <<>>

\* Lines 189-190 set the framing the call reads.
Prompt_Framing ==
    /\ pc = "prompt"
    /\ call.fn = "Encode_Data"
    /\ STARTBIT' \in 0..1
    /\ PARITY' \in 0..1
    /\ pc' = "call"
    /\ UNCHANGED <<ONES_FREQ, ZERO_FREQ, FRAMERATE, AMPLITUDE, LEADER, SourceDir,
                   pulses, files, text_content, Binary_Data, idx, x, wav, harness>>

Call_Encode_Data ==
    /\ pc = "call"
    /\ call.fn = "Encode_Data"
    /\ ret' = Encode_Data(call.bytes, STARTBIT, PARITY, one_pulse, zero_pulse)
    /\ pc' = "return"
    /\ UNCHANGED <<globals, pulses, files, text_content, Binary_Data, idx, x, wav,
                   call>>

NextEncode == Prompt_Framing \/ Call_Encode_Data

SpecEncode == InitEncode /\ [][NextEncode]_vars

-----------------------------------------------------------------------------
(* Single calls of make_square_wave, one per frequency, rate and amplitude. *)

WaveAmplitudes == {0, 1, 100, 225, 254, 255}

InitWave ==
    /\ Loaded
    /\ Idle
    /\ pc = "prompt"
    /\ files = <<>>
    /\ call \in {[fn |-> "make_square_wave", freq |-> f, framerate |-> r] :
                    f \in FreqChoices, r \in FramerateChoices}
    /\ ret = <<>>

\* Line 187 sets the amplitude the call reads.
Prompt_Amplitude ==
    /\ pc = "prompt"
    /\ call.fn = "make_square_wave"
    /\ AMPLITUDE' \in WaveAmplitudes
    /\ pc' = "call"
    /\ UNCHANGED <<ONES_FREQ, ZERO_FREQ, FRAMERATE, LEADER, STARTBIT, PARITY,
                   SourceDir, pulses, files, text_content, Binary_Data, idx, x, wav,
                   harness>>

Call_make_square_wave ==
    /\ pc = "call"
    /\ call.fn = "make_square_wave"
    /\ ret' = make_square_wave(call.freq, call.framerate, AMPLITUDE, CENTER)
    /\ pc' = "return"
    /\ UNCHANGED <<globals, pulses, files, text_content, Binary_Data, idx, x, wav,
                   call>>

NextWave == Prompt_Amplitude \/ Call_make_square_wave

SpecWave == InitWave /\ [][NextWave]_vars

-----------------------------------------------------------------------------
(* Reading results back.  These definitions belong to the properties, not  *)
(* to the program: they say what a receiver or a reader of the list sees.  *)

\* The number a string of binary digits denotes.
RECURSIVE BinValue(_)
BinValue(b) ==
    IF b = <<>> THEN 0 ELSE 2 * BinValue(SubSeq(b, 1, Len(b) - 1)) + b[Len(b)]

\* Two groups read as the high and the low byte of a 16-bit number.
Decode16(hi, lo) == BinValue(hi) * 256 + BinValue(lo)

\* The 8-bit group of the low eight bits of v, most significant bit first.
Byte8(v) == [i \in 1..8 |-> (v \div (2 ^ (8 - i))) % 2]

IsHead(part, s, i) ==
    /\ Len(part) > 0
    /\ i + Len(part) - 1 <= Len(s)
    /\ SubSeq(s, i, i + Len(part) - 1) = part

\* The samples from position i on cut into pulses: 1 for a copy of one_pulse,
\* 0 for a copy of zero_pulse, and a single 2 where neither follows.
RECURSIVE Pulses(_, _)
Pulses(s, i) ==
    IF i > Len(s) THEN <<>>
    ELSE IF IsHead(zero_pulse, s, i) THEN <<0>> \o Pulses(s, i + Len(zero_pulse))
    ELSE IF IsHead(one_pulse, s, i) THEN <<1>> \o Pulses(s, i + Len(one_pulse))
    ELSE <<2>>

\* A line that begins with a decimal digit.
Labelled(line) == Len(line) > 0 /\ IsDigit(line[1])

\* The bytes of the body of a labelled line: the rest after the digits,
\* without leading white space, with a carriage return, in UTF-8.
BodyBytes(line) ==
    LET d == DigitRun(line)
    IN  encode(lstrip(SliceFrom(line, d)) \o <<CR>>)

LabelOf(line) == int(SubSeq(line, 1, DigitRun(line)))

\* An int below 65536, and the value of the low 30 bits of an int.
Fits16(n) == Len(n) < 2 \/ (Len(n) = 2 /\ n[2] < 2)
Low30(n) ==
    (IF Len(n) > 0 THEN n[1] ELSE 0) + (IF Len(n) > 1 THEN n[2] * PyLong_BASE ELSE 0)

\* The number of groups the labelled lines among ls[i..] contribute.
RECURSIVE GroupCount(_, _)
GroupCount(ls, i) ==
    IF i > Len(ls) THEN 0
    ELSE (IF Labelled(ls[i]) THEN 2 + Len(BodyBytes(ls[i])) ELSE 0)
            + GroupCount(ls, i + 1)

\* The groups of the records of ls[i..], every group eight digits wide.
RECURSIVE RecordGroups(_, _)
RecordGroups(ls, i) ==
    IF i > Len(ls) THEN <<>>
    ELSE (IF Labelled(ls[i])
          THEN <<Byte8(Low30(LabelOf(ls[i])) \div 256), Byte8(Low30(LabelOf(ls[i])))>>
                  \o [k \in 1..Len(BodyBytes(ls[i])) |-> Byte8(BodyBytes(ls[i])[k])]
          ELSE <<>>)
            \o RecordGroups(ls, i + 1)

InputLines == split(read(call.content))

-----------------------------------------------------------------------------
(* Create_BinData, checked under SpecBin.                                  *)

\* C1, checked under SpecStart: the first two groups of the result, read as a
\* big-endian 16-bit number, are N + 256, where N counts the groups of the
\* labelled lines (two label groups and one group per body byte) and not the
\* terminator. N is byte_size, the length of code_array at line 88.
\* Fails for N = 65280 (LongText): the groups are 10000000 and 000000000.
C1_HeaderIsCountPlus256 ==
    pc = "return" =>
        /\ Len(ret) = 2
        /\ Decode16(ret[1], ret[2]) = call.byte_size + 256

\* C1 where it does hold, under SpecBin: as long as N + 256 fits in 16 bits,
\* N counted from the lines of the text.
C1_HeaderWhenItFits ==
    (pc = "return" /\ GroupCount(InputLines, 1) + 256 < 65536) =>
        /\ Len(ret) = GroupCount(InputLines, 1) + 3
        /\ Decode16(ret[1], ret[2]) = GroupCount(InputLines, 1) + 256

\* The result for LongText, under SpecBin: 65280 groups before the terminator
\* and the header groups 10000000 and 000000000.
C1_LongTextHeader ==
    (pc = "return" /\ call.content = LongText) =>
        /\ Len(ret) = 65280 + 3
        /\ ret[1] = <<1, 0, 0, 0, 0, 0, 0, 0>>
        /\ ret[2] = <<0, 0, 0, 0, 0, 0, 0, 0, 0>>
        /\ <<ret[1], ret[2]>> = Start_Array(65280)

\* C2: a line that does not begin with a decimal digit produces no record:
\* the result is the result for the text without such lines, header included
\* (and the call raises exactly when it raises without them).
C2_UnlabelledLinesIgnored ==
    pc \in {"return", "raised"} =>
        ret = Create_BinData(Join(SelectSeq(InputLines, Labelled)))

\* C2 witness: a result for a text with a labelled line and a line that has
\* white space before its number, which left no group behind.
C2_Witness ==
    /\ pc = "return"
    /\ \E i, j \in 1..Len(InputLines) :
            /\ InputLines[i] = <<32, 53, 66>>
            /\ Labelled(InputLines[j])
    /\ Len(ret) = 3 + GroupCount(InputLines, 1)
    /\ Len(ret) > 3

\* C3: the result is header high, header low, then per labelled line in input
\* order the two big-endian label groups and one group per body byte, then one
\* terminator group of value 0; with no labelled line it is 1, 0, 0.
\* Fails for the line "65536": its label groups are 10000000 and 000000000.
C3_OutputLayout ==
    pc = "return" =>
        LET n == GroupCount(InputLines, 1)
        IN  /\ ret = <<Byte8((n + 256) \div 256), Byte8(n + 256)>>
                        \o RecordGroups(InputLines, 1) \o <<Byte8(0)>>
            /\ n = 0 => ret = <<Byte8(1), Byte8(0), Byte8(0)>>

\* C3 where it does hold: labels and header below 65536.
C3_LayoutWhenItFits ==
    (/\ pc = "return"
     /\ GroupCount(InputLines, 1) + 256 < 65536
     /\ \A i \in 1..Len(InputLines) :
            Labelled(InputLines[i]) => Fits16(LabelOf(InputLines[i])))
        => C3_OutputLayout

\* C10: every element of the result is exactly eight binary digits, also for
\* labels above 65535 and for N + 256 above 65535.
\* Fails for the line "65536": the second label group has nine digits.
C10_EveryGroupEightDigits ==
    pc = "return" =>
        \A k \in 1..Len(ret) :
            /\ Len(ret[k]) = 8
            /\ \A i \in 1..Len(ret[k]) : ret[k][i] \in {0, 1}

-----------------------------------------------------------------------------
(* Encode_Data.                                                            *)

\* C4, checked under Spec: for every group of Binary_Data the frame is ten
\* pulses: the start pulse for STARTBIT, the eight data bits most significant
\* first, one parity pulse; pulses 2 to 9 read back as the group.
\* Fails for the nine-digit group of the file "65536": eleven pulses.
C4_FrameIsTenPulses ==
    pc \in {"open", "frames", "trailer", "close", "tag"} =>
        \A k \in 1..Len(Binary_Data) :
            LET d == Pulses(Encode_Data(Binary_Data[k], STARTBIT, PARITY,
                                        one_pulse, zero_pulse), 1)
            IN  /\ Len(d) = 10
                /\ d[1] = (IF STARTBIT = 0 THEN 0 ELSE 1)
                /\ SubSeq(d, 2, 9) = Binary_Data[k]
                /\ d[10] \in {0, 1}

\* C4 where it does hold, under SpecEncode: groups of exactly eight digits.
C4_TenPulsesForEightDigits ==
    pc = "return" =>
        LET d == Pulses(ret, 1)
        IN  /\ Len(d) = 10
            /\ d[1] = (IF STARTBIT = 0 THEN 0 ELSE 1)
            /\ SubSeq(d, 2, 9) = call.bytes
            /\ d[10] \in {0, 1}

\* C5, checked under SpecEncode: for all 256 byte values the number of 1 data
\* bits plus the parity bit is odd when PARITY is 0 and even when PARITY is 1;
\* in odd mode a byte without 1 bits gets a one pulse as parity.
C5_ParityRelation ==
    pc = "return" =>
        LET d == Pulses(ret, 1)
            ones == Cardinality({i \in 1..8 : call.bytes[i] = 1})
        IN  /\ Len(d) = 10
            /\ d[10] \in {0, 1}
            /\ (ones + d[10]) % 2 = (IF PARITY = 0 THEN 1 ELSE 0)
            /\ (PARITY = 0 /\ ones = 0) => d[10] = 1

\* C5 witness: the byte 0 encoded in odd mode, its parity pulse a one pulse.
C5_Witness ==
    /\ pc = "return"
    /\ PARITY = 0
    /\ call.bytes = Byte8(0)
    /\ Pulses(ret, 1)[10] = 1

-----------------------------------------------------------------------------
(* Write_Wav, checked under Spec.                                          *)

\* The frames of the groups 1..k of Binary_Data, in order.
RECURSIVE FramesUpTo(_)
FramesUpTo(k) ==
    IF k = 0 THEN <<>>
    ELSE FramesUpTo(k - 1)
            \o Encode_Data(Binary_Data[k], STARTBIT, PARITY, one_pulse, zero_pulse)

\* floor(sampleRate / length of one pulse) x leaderSeconds copies of one_pulse.
LeaderTone ==
    LET count == (FRAMERATE \div Len(one_pulse)) * LEADER
    IN  [i \in 1..(count * Len(one_pulse)) |-> one_pulse[((i - 1) % Len(one_pulse)) + 1]]

\* C6: what Write_Wav has written is, at every point, a prefix of: the leader
\* (the one pulse floor(FRAMERATE / len(one_pulse)) x LEADER times), the frame
\* of every group in the order of Binary_Data, three zero pulses; when the file
\* is closed it is all of it and nothing else.
C6_StreamOrder ==
    /\ pc = "frames" => wav = LeaderTone \o FramesUpTo(idx - 1)
    /\ pc = "trailer" =>
            wav = LeaderTone \o FramesUpTo(Len(Binary_Data))
                    \o (IF x >= 1 THEN zero_pulse ELSE <<>>)
                    \o (IF x >= 2 THEN zero_pulse ELSE <<>>)
    /\ pc \in {"close", "tag"} =>
            wav = LeaderTone \o FramesUpTo(Len(Binary_Data))
                    \o zero_pulse \o zero_pulse \o zero_pulse

\* C6 witness: a closed file with a leader, frames of a labelled line, trailer.
C6_Witness ==
    /\ pc = "tag"
    /\ LEADER = 1
    /\ Len(Binary_Data) > 3
    /\ Len(wav) > Len(LeaderTone) + 3 * Len(zero_pulse)

-----------------------------------------------------------------------------
(* The pulses and the configuration.                                       *)

\* A single square-wave cycle for freq at rate: floor(rate / freq / 2) samples
\* at center - amplitude/2, then as many at center + amplitude/2.
IsSquareWave(w, freq, rate, amplitude, center) ==
    LET n == (rate \div freq) \div 2
    IN  /\ Len(w) = 2 * n
        /\ \A i \in 1..n :
                /\ w[i] = center - (amplitude \div 2)
                /\ w[n + i] = center + (amplitude \div 2)

\* C7, checked under Spec: while a file is converted, the pulses for 1 bits and
\* leader and for 0 bits and trailer are the square waves of the configuration
\* collected at the prompts.
\* Fails as soon as an answer differs from the default: the pulses are those
\* built from the defaults when the module loaded.
C7_PulsesFollowConfiguration ==
    pc \in {"open", "frames", "trailer", "close", "tag"} =>
        /\ IsSquareWave(one_pulse, ONES_FREQ, FRAMERATE, AMPLITUDE, CENTER)
        /\ IsSquareWave(zero_pulse, ZERO_FREQ, FRAMERATE, AMPLITUDE, CENTER)

\* C8, checked under SpecWave: make_square_wave returns 2 x floor(rate/freq/2)
\* samples, the first half center - amplitude//2, the second half
\* center + amplitude//2.
C8_SquareWaveShape ==
    pc = "return" =>
        IsSquareWave(ret, call.freq, call.framerate, AMPLITUDE, CENTER)

\* C8 witness: a non-empty wave for an odd amplitude, so that the halving
\* truncates, with two different levels.
C8_Witness ==
    /\ pc = "return"
    /\ AMPLITUDE = 225
    /\ Len(ret) >= 4
    /\ ret[1] = 16
    /\ ret[Len(ret)] = 240

\* C9, checked under Spec: a configuration whose half-cycle is zero samples
\* long for either tone is rejected before any file is processed.
\* Fails for 9600 Hz at a frame rate of 4800 Hz: the files are converted.
C9_ZeroHalfCycleRejected ==
    pc \in {"open", "frames", "trailer", "close", "tag"} =>
        /\ (FRAMERATE \div ONES_FREQ) \div 2 > 0
        /\ (FRAMERATE \div ZERO_FREQ) \div 2 > 0

====
